---- MODULE Spec2Model ----
(***************************************************************************)
(* A model of the sorcery_engine crate: the characteristic value types of  *)
(* core.rs, Card::color, and the Game session of game.rs (Game::new,       *)
(* Game::start, Game::spawn_object, Library::shuffle, find_card_by_name).  *)
(***************************************************************************)
EXTENDS Naturals, Integers, Sequences, FiniteSets, TLC

(***************************************************************************)
(* Bounds of the model.                                                    *)
(***************************************************************************)
\* Game::new is called with 0..MaxPlayers players.
MaxPlayers == 2
\* The world holds at most MaxEntities entities (calls that could exceed it
\* are not made).
MaxEntities == 3
\* The array a mana cost is built from holds at most MaxSymbols symbols.
MaxSymbols == 3
\* Generic(n) symbols have n in 0..MaxGeneric.
MaxGeneric == 1
\* A deck asks for at most MaxDeckLen copies in all.
MaxDeckLen == 2
\* At most MaxCalls calls of start and spawn_object are made on a session.
MaxCalls == 2
\* At most MaxLookups calls of find_card_by_name are made in a row.
MaxLookups == 3

(***************************************************************************)
(* Option<T>: None is the empty sequence, Some(x) the one-element one.     *)
(***************************************************************************)
None == << >>
Some(x) == << x >>
IsSome(o) == o # None
Unwrap(o) == o[1]

(***************************************************************************)
(* core.rs: characteristic types.                                          *)
(***************************************************************************)
\* enum Color, in declaration order.
ColorSeq == << "White", "Blue", "Black", "Red", "Green" >>
Color == { ColorSeq[i] : i \in 1..Len(ColorSeq) }

\* enum ColorKind { Monocolored(Color), Multicolored(BTreeSet<Color>), Colorless }
Monocolored(c) == [kind |-> "Monocolored", colors |-> {c}]
Multicolored(S) == [kind |-> "Multicolored", colors |-> S]
Colorless == [kind |-> "Colorless", colors |-> {}]
ColorKind ==
    { Monocolored(c) : c \in Color } \cup { Multicolored(S) : S \in SUBSET Color }
        \cup { Colorless }

\* enum ManaSymbol { Colored(Color), Generic(u64), Variable, Colorless }
Colored(c) == [sym |-> "Colored", color |-> c, n |-> 0]
Generic(k) == [sym |-> "Generic", color |-> "", n |-> k]
Variable == [sym |-> "Variable", color |-> "", n |-> 0]
ColorlessSymbol == [sym |-> "Colorless", color |-> "", n |-> 0]
ManaSymbol ==
    { Colored(c) : c \in Color } \cup { Generic(k) : k \in 0..MaxGeneric }
        \cup { Variable, ColorlessSymbol }

\* IndexSet::from(array): every symbol is inserted in turn; a symbol already
\* present keeps its first position.
RECURSIVE IndexSetFrom(_)
IndexSetFrom(symbols) ==
    IF symbols = << >> THEN << >>
    ELSE LET front == IndexSetFrom(SubSeq(symbols, 1, Len(symbols) - 1))
             last == symbols[Len(symbols)]
         IN  IF \E i \in 1..Len(front) : front[i] = last
             THEN front
             ELSE Append(front, last)

\* struct ManaCost(IndexSet<ManaSymbol>)
ManaCost(symbols) == IndexSetFrom(symbols)

\* The fold as it would be with the set replaced, instead of extended, by the
\* color of each Colored symbol.
RECURSIVE fold_keeping_last(_)
fold_keeping_last(cost) ==
    IF cost = << >> THEN {}
    ELSE LET colors == fold_keeping_last(SubSeq(cost, 1, Len(cost) - 1))
             symbol == cost[Len(cost)]
         IN  IF symbol.sym = "Colored" THEN {symbol.color} ELSE colors

\* The fold of Card::color over the symbols of a mana cost: a BTreeSet that
\* gains the color of every Colored symbol.
RECURSIVE fold(_)
fold(cost) ==
    IF cost = << >> THEN {}
    ELSE LET colors == fold(SubSeq(cost, 1, Len(cost) - 1))
             symbol == cost[Len(cost)]
         IN  IF symbol.sym = "Colored" THEN colors \cup {symbol.color} ELSE colors

\* BTreeSet<Color>::iter().next(): the least color in the derived order of
\* enum Color (its declaration order).
\* The order as it would be with the variants of Color declared by name:
\* Black, Blue, Green, Red, White.
ColorOrd_by_name(c) ==
    CHOOSE i \in 1..5 : << "Black", "Blue", "Green", "Red", "White" >>[i] = c
ColorOrd(c) == CHOOSE i \in 1..Len(ColorSeq) : ColorSeq[i] = c
BTreeFirst(S) == CHOOSE c \in S : \A d \in S : ColorOrd(c) <= ColorOrd(d)

\* BTreeSet<Color>::iter(): the colors of the set, least first.
RECURSIVE BTreeIter(_)
BTreeIter(S) ==
    IF S = {} THEN << >>
    ELSE << BTreeFirst(S) >> \o BTreeIter(S \ {BTreeFirst(S)})

\* Card::color.
color_ignoring_indicator(self) ==
    LET colors == IF IsSome(self.mana_cost) THEN fold(Unwrap(self.mana_cost)) ELSE {}
    IN  IF colors = {} THEN Colorless
        ELSE IF Cardinality(colors) = 1
             THEN Monocolored(BTreeFirst(colors))
             ELSE Multicolored(colors)
color_without_len_match(self) ==
    IF IsSome(self.color_indicator) THEN Unwrap(self.color_indicator)
    ELSE LET colors == IF IsSome(self.mana_cost)
                       THEN fold(Unwrap(self.mana_cost)) ELSE {}
         IN  IF colors = {} THEN Colorless ELSE Multicolored(colors)
color_without_filter(self) ==
    IF IsSome(self.color_indicator) THEN Unwrap(self.color_indicator)
    ELSE IF ~IsSome(self.mana_cost) THEN Colorless
         ELSE LET colors == fold(Unwrap(self.mana_cost))
              IN  IF Cardinality(colors) = 1
                  THEN Monocolored(BTreeFirst(colors))
                  ELSE Multicolored(colors)
\* color as it would be with the arms chosen by the number of symbols of the
\* cost instead of the number of colors collected.
color_by_symbol_count(self) ==
    IF IsSome(self.color_indicator) THEN Unwrap(self.color_indicator)
    ELSE LET colors == IF IsSome(self.mana_cost)
                       THEN fold(Unwrap(self.mana_cost)) ELSE {}
         IN  IF colors = {} THEN Colorless
             ELSE IF Len(Unwrap(self.mana_cost)) = 1
                  THEN Monocolored(BTreeFirst(colors))
                  ELSE Multicolored(colors)
color(self) ==
    IF IsSome(self.color_indicator) THEN Unwrap(self.color_indicator)
    ELSE LET colors == IF IsSome(self.mana_cost)
                       THEN LET it == fold(Unwrap(self.mana_cost))
                            IN  IF it # {} THEN Some(it) ELSE None
                       ELSE None
         IN  IF colors = None THEN Colorless
             ELSE IF Cardinality(Unwrap(colors)) = 1
                  THEN Monocolored(BTreeFirst(Unwrap(colors)))
                  ELSE Multicolored(Unwrap(colors))

(***************************************************************************)
(* core.rs: cards, zones, players.                                         *)
(***************************************************************************)
\* struct PtCharacteristic { power, toughness } with PtValue::Fixed.
Pt(power, toughness) == [power |-> power, toughness |-> toughness]

\* struct TypeLine: three IndexSets, kept in insertion order.
TypeLine(card_type, subtype, supertype) ==
    [card_type |-> card_type, subtype |-> subtype, supertype |-> supertype]

\* impl Default for Card: the empty card the tests build on.
Card_default ==
    [name |-> "Test Card", mana_cost |-> None, color_indicator |-> None,
     type_line |-> TypeLine(<< >>, << >>, << >>),
     expansion_symbol |-> [set |-> "TEST", rarity |-> "Common"],
     rules_text |-> "", pt |-> None, loyalty |-> None, collector_number |-> 0]

\* enum Zone.
Zone_Library(p) == [zone |-> "Library", player |-> p]
Zone_Hand(p) == [zone |-> "Hand", player |-> p]
Zone_Graveyard(p) == [zone |-> "Graveyard", player |-> p]
Zone_Battlefield == [zone |-> "Battlefield"]
Zone_Stack == [zone |-> "Stack"]
Zone_Exile == [zone |-> "Exile"]
Zone_Command == [zone |-> "Command"]

\* PlayerId(u32): the ids a call may name. Game::new(n) gives the ids 0..n-1,
\* so MaxPlayers is an id of no roster.
PlayerId == 0..MaxPlayers
Zone ==
    { Zone_Library(p) : p \in PlayerId } \cup { Zone_Hand(p) : p \in PlayerId }
        \cup { Zone_Graveyard(p) : p \in PlayerId }
        \cup { Zone_Battlefield, Zone_Stack, Zone_Exile, Zone_Command }

(***************************************************************************)
(* game.rs: the card database.  cards.json is a table of Card records; the *)
(* model keeps four of them, two of which share a name (a reprint).        *)
(***************************************************************************)
CARD_DATABASE ==
    << [Card_default EXCEPT
            !.name = "Plains",
            !.type_line = TypeLine(<< "Land" >>, << "Plains" >>, << "Basic" >>),
            !.expansion_symbol = [set |-> "M21", rarity |-> "Common"],
            !.collector_number = 260],
       [Card_default EXCEPT
            !.name = "Soulmender",
            !.mana_cost = Some(ManaCost(<< Colored("White") >>)),
            !.type_line = TypeLine(<< "Creature" >>, << "Human", "Cleric" >>, << >>),
            !.expansion_symbol = [set |-> "M15", rarity |-> "Common"],
            !.rules_text = "{T}: You gain 1 life.",
            !.pt = Some(Pt(1, 1)),
            !.collector_number = 35],
       [Card_default EXCEPT
            !.name = "Plains",
            !.type_line = TypeLine(<< "Land" >>, << "Plains" >>, << "Basic" >>),
            !.expansion_symbol = [set |-> "M21", rarity |-> "Common"],
            !.collector_number = 261],
       [Card_default EXCEPT
            !.name = "Garruk, Apex Predator",
            !.mana_cost =
                Some(ManaCost(<< Generic(5), Colored("Black"), Colored("Green") >>)),
            !.type_line = TypeLine(<< "Planeswalker" >>, << "Garruk" >>, << "Legendary" >>),
            !.expansion_symbol = [set |-> "M15", rarity |-> "Mythic"],
            !.loyalty = Some(5),
            !.collector_number = 210] >>

\* find_card_by_name as it would be with the last record of that name found.
find_card_by_name_last(name) ==
    LET found == { i \in 1..Len(CARD_DATABASE) : CARD_DATABASE[i].name = name }
    IN  IF found = {} THEN None
        ELSE Some(CARD_DATABASE[CHOOSE i \in found : \A j \in found : i >= j])

\* find_card_by_name: the first record of the database with that name.
find_card_by_name(name) ==
    LET found == { i \in 1..Len(CARD_DATABASE) : CARD_DATABASE[i].name = name }
    IN  IF found = {} THEN None
        ELSE Some(CARD_DATABASE[CHOOSE i \in found : \A j \in found : i <= j])

(***************************************************************************)
(* Deck: an ordered list of (card name, copy count) pairs.  Deck::cards    *)
(* resolves every name through find_card_by_name, failing if one is not    *)
(* found, and yields one card per copy, in deck order.                     *)
(***************************************************************************)
\* The names decks are written with; "Black Lotus" is in no database record.
DeckNames == {"Plains", "Soulmender", "Black Lotus"}

\* The number of copies a deck asks for.
RECURSIVE Deck_len(_)
Deck_len(deck) ==
    IF deck = << >> THEN 0 ELSE Head(deck).count + Deck_len(Tail(deck))

\* Deck::cards: None when a name is not in the database (the call fails).
RECURSIVE Deck_expand(_)
Deck_expand(deck) ==
    IF deck = << >> THEN << >>
    ELSE [i \in 1..Head(deck).count |-> Unwrap(find_card_by_name(Head(deck).name))]
             \o Deck_expand(Tail(deck))
Deck_cards(deck) ==
    IF \E i \in 1..Len(deck) : find_card_by_name(deck[i].name) = None
    THEN None
    ELSE Some(Deck_expand(deck))

\* The decks that ask for exactly n copies.
RECURSIVE DecksOfLen(_)
DecksOfLen(n) ==
    IF n = 0 THEN { << >> }
    ELSE UNION { { << [name |-> nm, count |-> c] >> \o d :
                       nm \in DeckNames, d \in DecksOfLen(n - c) } : c \in 1..n }

\* The decks a first start is called with: every deck of at most MaxDeckLen
\* copies.
Decks == UNION { DecksOfLen(k) : k \in 0..MaxDeckLen }

\* The decks a start is called with in a session of several calls: one card
\* that is in the database, or one that is not.
SessionDecks ==
    { << [name |-> "Plains", count |-> 1] >>,
      << [name |-> "Black Lotus", count |-> 1] >> }

\* The maps from the ids of K to decks of D that ask for at most cap copies in
\* all.
RECURSIVE DeckMapsOn(_, _, _)
DeckMapsOn(K, cap, D) ==
    IF K = {} THEN { << >> }
    ELSE LET k == CHOOSE x \in K : TRUE
         IN  UNION { { (k :> d) @@ rest :
                           rest \in DeckMapsOn(K \ {k}, cap - Deck_len(d), D) } :
                         d \in { x \in D : Deck_len(x) <= cap } }
DeckMaps(cap, D) == UNION { DeckMapsOn(K, cap, D) : K \in SUBSET PlayerId }

\* The HashMap<PlayerId, Deck> arguments of a first start, and those of a
\* start in a session of several calls, by the copies the world has room for.
StartDeckMaps == DeckMaps(MaxEntities, Decks)
SessionDeckMaps == [cap \in 0..MaxEntities |-> DeckMaps(cap, SessionDecks)]

(***************************************************************************)
(* game.rs: the session.                                                   *)
(***************************************************************************)
VARIABLES
    world,        \* hecs World: the entities in spawn order; an Entity is its index
    players,      \* Game.players: Vec<Player>
    libraries,    \* Game.libraries: HashMap<PlayerId, Library>
    pc,           \* "idle", or the loop of Game::start that is running
    lastCall,     \* the call made last, with its arguments and the state it found
    outcome,      \* of lastCall: "ok", "running", or the panic that ended it
    deckIter,     \* start: the keys decks.iter() has not yielded yet
    curId,        \* start: the key of the deck being spawned
    cardIter,     \* start: the cards of that deck not spawned yet
    shuffleIter,  \* start: the libraries values_mut() has not yielded yet
    shuffled,     \* the libraries lastCall has shuffled, in order
    calls,        \* the number of calls made on the session
    rawCost,      \* Card::color: the symbol array the card's cost is built from
    indicator,    \* Card::color: the card's color indicator
    testCard,     \* Card::color: the card built from them
    colorResult,  \* Card::color: what color() returned for testCard
    lookups       \* find_card_by_name: the lookups made, each with what it returned

gameVars ==
    << world, players, libraries, pc, lastCall, outcome, deckIter, curId, cardIter,
       shuffleIter, shuffled, calls >>
colorVars == << rawCost, indicator, testCard, colorResult >>
vars == << gameVars, colorVars, lookups >>

\* struct Library { cards: Vec<Entity> }, and its Default.
Library_default == [cards |-> << >>]

\* Game::new as it would be with the ids counted from 1, as the names are.
Game_new_ids_from_one(n) ==
    LET ps == [i \in 1..n |-> [id |-> i, life |-> 20, name |-> << "Player", i >>]]
    IN  [world |-> << >>,
         players |-> ps,
         libraries |-> [id \in { ps[i].id : i \in 1..n } |-> Library_default]]

\* Game::new.
Game_new(n) ==
    LET ps == [i \in 1..n |-> [id |-> i - 1, life |-> 20, name |-> << "Player", i >>]]
    IN  [world |-> << >>,
         players |-> ps,
         libraries |-> [id \in { ps[i].id : i \in 1..n } |-> Library_default]]

\* The builder as it would be with the color component taken from the color
\* indicator alone.
EntityBuilder_for_indicator_color(card) ==
    [Object |-> Some(TRUE),
     Name |-> Some(card.name),
     TypeLine |-> Some(card.type_line),
     ExpansionSymbol |-> Some(card.expansion_symbol),
     RulesText |-> Some(card.rules_text),
     CollectorNumber |-> Some(card.collector_number),
     ColorKind |-> IF IsSome(card.color_indicator)
                   THEN card.color_indicator ELSE Some(Colorless),
     ManaCost |-> card.mana_cost,
     PtCharacteristic |-> card.pt,
     Loyalty |-> card.loyalty,
     Owner |-> None,
     Controller |-> None,
     Zone |-> None]

\* The builder as it would be with an empty mana cost attached for a card
\* that has none.
EntityBuilder_for_cost_or_default(card) ==
    [Object |-> Some(TRUE),
     Name |-> Some(card.name),
     TypeLine |-> Some(card.type_line),
     ExpansionSymbol |-> Some(card.expansion_symbol),
     RulesText |-> Some(card.rules_text),
     CollectorNumber |-> Some(card.collector_number),
     ColorKind |-> Some(color(card)),
     ManaCost |-> IF IsSome(card.mana_cost) THEN card.mana_cost ELSE Some(<< >>),
     PtCharacteristic |-> card.pt,
     Loyalty |-> card.loyalty,
     Owner |-> None,
     Controller |-> None,
     Zone |-> None]

\* The components EntityBuilder holds when spawn_object reaches its match.
\* A component is an Option: None when the entity does not carry it.
EntityBuilder_for(card) ==
    [Object |-> Some(TRUE),
     Name |-> Some(card.name),
     TypeLine |-> Some(card.type_line),
     ExpansionSymbol |-> Some(card.expansion_symbol),
     RulesText |-> Some(card.rules_text),
     CollectorNumber |-> Some(card.collector_number),
     ColorKind |-> Some(color(card)),
     ManaCost |-> card.mana_cost,
     PtCharacteristic |-> card.pt,
     Loyalty |-> card.loyalty,
     Owner |-> None,
     Controller |-> None,
     Zone |-> None]

\* spawn_object as it would be with the push onto the owner's Library left out.
spawn_object_without_push(w, libs, card, zone) ==
    IF zone.zone = "Library"
    THEN LET built == [EntityBuilder_for(card) EXCEPT
                           !.Owner = Some(zone.player),
                           !.Zone = Some(Zone_Library(zone.player))]
         IN  IF zone.player \in DOMAIN libs
             THEN [world |-> Append(w, built), libraries |-> libs, result |-> "ok"]
             ELSE [world |-> Append(w, built), libraries |-> libs,
                   result |-> "panic: Could not access the library"]
    ELSE [world |-> w, libraries |-> libs, result |-> "panic: not implemented"]

\* spawn_object as it would be with the entity pushed onto the Library of the
\* first player instead of the owner's.
spawn_object_into_first_library(w, libs, card, zone) ==
    IF zone.zone = "Library"
    THEN LET built == [EntityBuilder_for(card) EXCEPT
                           !.Owner = Some(zone.player),
                           !.Zone = Some(Zone_Library(zone.player))]
         IN  IF zone.player \in DOMAIN libs
             THEN [world |-> Append(w, built),
                   libraries |-> [libs EXCEPT ![0].cards = Append(@, Len(w) + 1)],
                   result |-> "ok"]
             ELSE [world |-> Append(w, built), libraries |-> libs,
                   result |-> "panic: Could not access the library"]
    ELSE [world |-> w, libraries |-> libs, result |-> "panic: not implemented"]

\* spawn_object as it would be with Hand(owner) matched by the Library arm.
spawn_object_hand_as_library(w, libs, card, zone) ==
    IF zone.zone \in {"Library", "Hand"}
    THEN LET built == [EntityBuilder_for(card) EXCEPT
                           !.Owner = Some(zone.player),
                           !.Zone = Some(Zone_Library(zone.player))]
         IN  IF zone.player \in DOMAIN libs
             THEN [world |-> Append(w, built),
                   libraries |->
                       [libs EXCEPT ![zone.player].cards = Append(@, Len(w) + 1)],
                   result |-> "ok"]
             ELSE [world |-> Append(w, built), libraries |-> libs,
                   result |-> "panic: Could not access the library"]
    ELSE [world |-> w, libraries |-> libs, result |-> "panic: not implemented"]

\* spawn_object as it would be with libraries.entry(owner).or_default() in
\* place of get_mut(&owner).unwrap_or_else(panic).
spawn_object_or_default(w, libs, card, zone) ==
    IF zone.zone = "Library"
    THEN LET built == [EntityBuilder_for(card) EXCEPT
                           !.Owner = Some(zone.player),
                           !.Zone = Some(Zone_Library(zone.player))]
             old == IF zone.player \in DOMAIN libs
                    THEN libs[zone.player].cards ELSE << >>
         IN  [world |-> Append(w, built),
              libraries |->
                  [id \in DOMAIN libs \cup {zone.player} |->
                      IF id = zone.player
                      THEN [cards |-> Append(old, Len(w) + 1)]
                      ELSE libs[id]],
              result |-> "ok"]
    ELSE [world |-> w, libraries |-> libs, result |-> "panic: not implemented"]

\* spawn_object as it would be with every card owned by the first player.
spawn_object_owned_by_first_player(w, libs, card, zone) ==
    IF zone.zone = "Library"
    THEN LET built == [EntityBuilder_for(card) EXCEPT
                           !.Owner = Some(0),
                           !.Zone = Some(Zone_Library(zone.player))]
         IN  IF zone.player \in DOMAIN libs
             THEN [world |-> Append(w, built),
                   libraries |->
                       [libs EXCEPT ![zone.player].cards = Append(@, Len(w) + 1)],
                   result |-> "ok"]
             ELSE [world |-> Append(w, built), libraries |-> libs,
                   result |-> "panic: Could not access the library"]
    ELSE [world |-> w, libraries |-> libs, result |-> "panic: not implemented"]

\* spawn_object as it would be with the Zone component left off the builder.
spawn_object_without_zone(w, libs, card, zone) ==
    IF zone.zone = "Library"
    THEN LET built == [EntityBuilder_for(card) EXCEPT !.Owner = Some(zone.player)]
         IN  IF zone.player \in DOMAIN libs
             THEN [world |-> Append(w, built),
                   libraries |->
                       [libs EXCEPT ![zone.player].cards = Append(@, Len(w) + 1)],
                   result |-> "ok"]
             ELSE [world |-> Append(w, built), libraries |-> libs,
                   result |-> "panic: Could not access the library"]
    ELSE [world |-> w, libraries |-> libs, result |-> "panic: not implemented"]

\* spawn_object as it would be with Controller(owner) added next to the Owner.
spawn_object_with_controller(w, libs, card, zone) ==
    IF zone.zone = "Library"
    THEN LET built == [EntityBuilder_for(card) EXCEPT
                           !.Owner = Some(zone.player),
                           !.Controller = Some(zone.player),
                           !.Zone = Some(Zone_Library(zone.player))]
         IN  IF zone.player \in DOMAIN libs
             THEN [world |-> Append(w, built),
                   libraries |->
                       [libs EXCEPT ![zone.player].cards = Append(@, Len(w) + 1)],
                   result |-> "ok"]
             ELSE [world |-> Append(w, built), libraries |-> libs,
                   result |-> "panic: Could not access the library"]
    ELSE [world |-> w, libraries |-> libs, result |-> "panic: not implemented"]

\* spawn_object as it would be with the entity inserted at the front of the
\* owner's Library.
spawn_object_push_front(w, libs, card, zone) ==
    IF zone.zone = "Library"
    THEN LET built == [EntityBuilder_for(card) EXCEPT
                           !.Owner = Some(zone.player),
                           !.Zone = Some(Zone_Library(zone.player))]
         IN  IF zone.player \in DOMAIN libs
             THEN [world |-> Append(w, built),
                   libraries |->
                       [libs EXCEPT ![zone.player].cards = << Len(w) + 1 >> \o @],
                   result |-> "ok"]
             ELSE [world |-> Append(w, built), libraries |-> libs,
                   result |-> "panic: Could not access the library"]
    ELSE [world |-> w, libraries |-> libs, result |-> "panic: not implemented"]

\* spawn_object as it would be with the owner's Library assigned the new
\* entity instead of extended by it.
spawn_object_replacing_library(w, libs, card, zone) ==
    IF zone.zone = "Library"
    THEN LET built == [EntityBuilder_for(card) EXCEPT
                           !.Owner = Some(zone.player),
                           !.Zone = Some(Zone_Library(zone.player))]
         IN  IF zone.player \in DOMAIN libs
             THEN [world |-> Append(w, built),
                   libraries |-> [libs EXCEPT ![zone.player].cards = << Len(w) + 1 >>],
                   result |-> "ok"]
             ELSE [world |-> Append(w, built), libraries |-> libs,
                   result |-> "panic: Could not access the library"]
    ELSE [world |-> w, libraries |-> libs, result |-> "panic: not implemented"]

\* Game::spawn_object on a session with world w and libraries libs: the world
\* and libraries it leaves, and how it ended.
spawn_object(w, libs, card, zone) ==
    LET builder == EntityBuilder_for(card)
    IN  IF zone.zone = "Library"
        THEN LET owner == zone.player
                 built == [builder EXCEPT !.Owner = Some(owner),
                                          !.Zone = Some(Zone_Library(owner))]
                 entity == Len(w) + 1
                 spawned == Append(w, built)
             IN  IF owner \in DOMAIN libs
                 THEN [world |-> spawned,
                       libraries |->
                           [libs EXCEPT ![owner].cards = Append(@, entity)],
                       result |-> "ok"]
                 ELSE [world |-> spawned, libraries |-> libs,
                       result |-> "panic: Could not access the library"]
        ELSE [world |-> w, libraries |-> libs, result |-> "panic: not implemented"]

\* Library::shuffle as it would be with every position drawn from the cards
\* independently of the others.
Library_shuffle_with_replacement(library) ==
    LET n == Len(library.cards)
    IN  { [cards |-> [i \in 1..n |-> library.cards[f[i]]]] : f \in [1..n -> 1..n] }

\* Library::shuffle as it would be if it left the cards in the order it
\* found them in.
Library_shuffle_keeps_order(library) == { library }

\* Library::shuffle: the orders slice::shuffle can leave the cards in.
Library_shuffle(library) ==
    LET n == Len(library.cards)
    IN  IF n = 0 THEN { library }
        ELSE { [cards |-> [i \in 1..n |-> library.cards[f[i]]]] :
                   f \in Permutations(1..n) }

(***************************************************************************)
(* The calls made on a session.                                            *)
(***************************************************************************)
Init ==
    /\ \E n \in 0..MaxPlayers :
          LET game == Game_new(n)
          IN  /\ world = game.world
              /\ players = game.players
              /\ libraries = game.libraries
              /\ lastCall = [op |-> "new", players |-> n]
    /\ pc = "idle"
    /\ outcome = "ok"
    /\ deckIter = {}
    /\ curId = 0
    /\ cardIter = << >>
    /\ shuffleIter = {}
    /\ shuffled = << >>
    /\ calls = 0
    /\ rawCost = None
    /\ indicator = None
    /\ testCard = None
    /\ colorResult = None
    /\ lookups = << >>

\* A direct call of spawn_object(card, zone).
SpawnObject(card, zone) ==
    /\ pc = "idle"
    /\ calls < MaxCalls
    /\ Len(world) < MaxEntities
    /\ LET r == spawn_object(world, libraries, card, zone)
       IN  /\ world' = r.world
           /\ libraries' = r.libraries
           /\ outcome' = r.result
    /\ lastCall' = [op |-> "spawn_object", card |-> card, zone |-> zone,
                    world |-> world, libraries |-> libraries]
    /\ calls' = calls + 1
    /\ shuffled' = << >>
    /\ UNCHANGED << players, pc, deckIter, curId, cardIter, shuffleIter, colorVars, lookups >>

\* start(decks): the assert_eq on the number of decks, then the first loop.
StartCall(decks) ==
    /\ pc = "idle"
    /\ calls < MaxCalls
    /\ lastCall' = [op |-> "start", decks |-> decks, fresh |-> lastCall.op = "new",
                    started |-> lastCall.op = "start" /\ outcome = "ok",
                    world |-> world, libraries |-> libraries]
    /\ calls' = calls + 1
    /\ shuffled' = << >>
    /\ IF Cardinality(DOMAIN decks) = Len(players)
       THEN /\ pc' = "spawn"
            /\ outcome' = "running"
            /\ deckIter' = DOMAIN decks
       ELSE /\ pc' = "idle"
            /\ outcome' = "panic: assertion failed"
            /\ deckIter' = {}
    /\ cardIter' = << >>
    /\ UNCHANGED << world, players, libraries, curId, shuffleIter, colorVars, lookups >>

\* for (&id, deck) in decks.iter(): the next deck, in the map's order, and
\* deck.cards().
StartNextDeck ==
    /\ pc = "spawn"
    /\ cardIter = << >>
    /\ \E id \in deckIter :
          LET cards == Deck_cards(lastCall.decks[id])
          IN  /\ curId' = id
              /\ deckIter' = deckIter \ {id}
              /\ IF IsSome(cards)
                 THEN /\ cardIter' = Unwrap(cards)
                      /\ UNCHANGED << pc, outcome >>
                 ELSE /\ cardIter' = << >>
                      /\ pc' = "idle"
                      /\ outcome' = "panic: card not found"
    /\ UNCHANGED << world, players, libraries, lastCall, shuffleIter, shuffled, calls,
                    colorVars, lookups >>

\* The inner loop as it would be with the cards of a deck taken from the back.
StartSpawn_from_back ==
    /\ pc = "spawn"
    /\ cardIter # << >>
    /\ LET r == spawn_object(world, libraries, cardIter[Len(cardIter)],
                             Zone_Library(curId))
       IN  /\ world' = r.world
           /\ libraries' = r.libraries
           /\ IF r.result = "ok"
              THEN /\ cardIter' = SubSeq(cardIter, 1, Len(cardIter) - 1)
                   /\ UNCHANGED << pc, outcome >>
              ELSE /\ cardIter' = << >>
                   /\ pc' = "idle"
                   /\ outcome' = r.result
    /\ UNCHANGED << players, lastCall, deckIter, curId, shuffleIter, shuffled, calls,
                    colorVars, lookups >>

\* self.spawn_object(card, &Zone::Library(id)) for the next card of the deck.
StartSpawn ==
    /\ pc = "spawn"
    /\ cardIter # << >>
    /\ LET r == spawn_object(world, libraries, Head(cardIter), Zone_Library(curId))
       IN  /\ world' = r.world
           /\ libraries' = r.libraries
           /\ IF r.result = "ok"
              THEN /\ cardIter' = Tail(cardIter)
                   /\ UNCHANGED << pc, outcome >>
              ELSE /\ cardIter' = << >>
                   /\ pc' = "idle"
                   /\ outcome' = r.result
    /\ UNCHANGED << players, lastCall, deckIter, curId, shuffleIter, shuffled, calls,
                    colorVars, lookups >>

\* The first loop is over: for library in self.libraries.values_mut().
StartSpawned ==
    /\ pc = "spawn"
    /\ cardIter = << >>
    /\ deckIter = {}
    /\ pc' = "shuffle"
    /\ shuffleIter' = DOMAIN libraries
    /\ UNCHANGED << world, players, libraries, lastCall, outcome, deckIter, curId,
                    cardIter, shuffled, calls, colorVars, lookups >>

\* The second loop as it would be with every Library shuffled again at each
\* turn of the loop.
StartShuffle_every_library ==
    /\ pc = "shuffle"
    /\ \E id \in shuffleIter :
          /\ libraries' \in
                { libs \in [DOMAIN libraries -> UNION { Library_shuffle(libraries[q]) :
                                                         q \in DOMAIN libraries }] :
                      \A q \in DOMAIN libraries : libs[q] \in Library_shuffle(libraries[q]) }
          /\ shuffleIter' = shuffleIter \ {id}
          /\ shuffled' = Append(shuffled, id)
    /\ UNCHANGED << world, players, pc, lastCall, outcome, deckIter, curId, cardIter,
                    calls, colorVars, lookups >>

\* The second loop as it would be if values_mut() did not advance.
StartShuffle_not_advancing ==
    /\ pc = "shuffle"
    /\ \E id \in shuffleIter :
          \E library \in Library_shuffle(libraries[id]) :
              libraries' = [libraries EXCEPT ![id] = library]
    /\ UNCHANGED << world, players, pc, lastCall, outcome, deckIter, curId, cardIter,
                    shuffleIter, shuffled, calls, colorVars, lookups >>

\* library.shuffle() for the next library, in the map's order.
StartShuffle ==
    /\ pc = "shuffle"
    /\ \E id \in shuffleIter :
          /\ \E library \in Library_shuffle(libraries[id]) :
                libraries' = [libraries EXCEPT ![id] = library]
          /\ shuffleIter' = shuffleIter \ {id}
          /\ shuffled' = Append(shuffled, id)
    /\ UNCHANGED << world, players, pc, lastCall, outcome, deckIter, curId, cardIter,
                    calls, colorVars, lookups >>

\* start as it would be if it could return before values_mut() is exhausted.
StartReturn_early ==
    /\ pc = "shuffle"
    /\ pc' = "idle"
    /\ outcome' = "ok"
    /\ UNCHANGED << world, players, libraries, lastCall, deckIter, curId, cardIter,
                    shuffleIter, shuffled, calls, colorVars, lookups >>

\* start returns.
StartReturn ==
    /\ pc = "shuffle"
    /\ shuffleIter = {}
    /\ pc' = "idle"
    /\ outcome' = "ok"
    /\ UNCHANGED << world, players, libraries, lastCall, deckIter, curId, cardIter,
                    shuffleIter, shuffled, calls, colorVars, lookups >>

Next ==
    \/ \E i \in 1..Len(CARD_DATABASE), zone \in Zone :
          SpawnObject(CARD_DATABASE[i], zone)
    \/ \E decks \in SessionDeckMaps[MaxEntities - Len(world)] : StartCall(decks)
    \/ StartNextDeck
    \/ StartSpawn
    \/ StartSpawned
    \/ StartShuffle
    \/ StartReturn

Spec == Init /\ [][Next]_vars

\* A session on which start is the first and only call.
FirstStart ==
    /\ lastCall.op = "new"
    /\ \E decks \in StartDeckMaps : StartCall(decks)

NextStart ==
    \/ FirstStart
    \/ StartNextDeck
    \/ StartSpawn
    \/ StartSpawned
    \/ StartShuffle
    \/ StartReturn

StartSpec == Init /\ [][NextStart]_vars

\* The same session, with start running on: the code is sequential, so a
\* step of start that can be taken is taken.
StartLiveSpec ==
    /\ StartSpec
    /\ WF_vars(StartNextDeck)
    /\ WF_vars(StartSpawn)
    /\ WF_vars(StartSpawned)
    /\ WF_vars(StartShuffle)
    /\ WF_vars(StartReturn)

(***************************************************************************)
(* Card::color on its own: a card is built the way the tests of core.rs    *)
(* build one (Card::builder() over Card::default, the cost from an array   *)
(* of symbols) and color() is called on it.                                *)
(***************************************************************************)
\* The arrays of at most MaxSymbols symbols, repetitions included.
SymbolArrays == UNION { [1..n -> ManaSymbol] : n \in 0..MaxSymbols }

InitColor ==
    /\ LET game == Game_new(0)
       IN  /\ world = game.world
           /\ players = game.players
           /\ libraries = game.libraries
    /\ lastCall = [op |-> "new", players |-> 0]
    /\ pc = "idle"
    /\ outcome = "ok"
    /\ deckIter = {}
    /\ curId = 0
    /\ cardIter = << >>
    /\ shuffleIter = {}
    /\ shuffled = << >>
    /\ calls = 0
    /\ rawCost \in {None} \cup { Some(a) : a \in SymbolArrays }
    /\ indicator \in {None} \cup { Some(k) : k \in ColorKind }
    /\ testCard = None
    /\ colorResult = None
    /\ lookups = << >>

\* Card::builder().mana_cost(ManaCost(array.into())).color_indicator(..).build()
BuildCard ==
    /\ testCard = None
    /\ testCard' =
          Some([Card_default EXCEPT
                    !.mana_cost = IF IsSome(rawCost)
                                  THEN Some(ManaCost(Unwrap(rawCost)))
                                  ELSE None,
                    !.color_indicator = indicator])
    /\ UNCHANGED << gameVars, rawCost, indicator, colorResult, lookups >>

\* card.color()
CallColor ==
    /\ IsSome(testCard)
    /\ colorResult = None
    /\ colorResult' = Some(color(Unwrap(testCard)))
    /\ UNCHANGED << gameVars, rawCost, indicator, testCard, lookups >>

NextColor == BuildCard \/ CallColor

ColorSpec == InitColor /\ [][NextColor]_vars

(***************************************************************************)
(* find_card_by_name on its own: a sequence of lookups on a session.       *)
(***************************************************************************)
\* The names looked up: those decks are written with, and a planeswalker's.
LookupNames == DeckNames \cup {"Garruk, Apex Predator"}

\* find_card_by_name(name)
FindCard(name) ==
    /\ Len(lookups) < MaxLookups
    /\ lookups' = Append(lookups, [name |-> name, card |-> find_card_by_name(name)])
    /\ UNCHANGED << gameVars, colorVars >>

NextLookup == \E name \in LookupNames : FindCard(name)

LookupSpec == Init /\ [][NextLookup]_vars

(***************************************************************************)
(* Properties of the session.                                              *)
(***************************************************************************)
\* The PlayerIds of the roster.
RosterIds == { players[i].id : i \in 1..Len(players) }

\* The entities of a world whose Zone component is z.
InZone(w, z) == { e \in 1..Len(w) : w[e].Zone = Some(z) }

\* The positions of a library's sequence that hold entity e.
Positions(library, e) == { i \in 1..Len(library.cards) : library.cards[i] = e }

\* start has returned, successfully or by a panic.
StartEnded == pc = "idle" /\ lastCall.op = "start"
StartFailed == StartEnded /\ outcome # "ok"
StartSucceeded == StartEnded /\ outcome = "ok"

\* C1: after start returns successfully on a freshly constructed session
\* whose deck map has one deck per roster player, every player's Library is
\* as long as the player's deck has copies, and every entity in it has
\* Zone = Library(that player) and Owner = that player.
C1_LibraryAfterStart ==
    (StartSucceeded /\ lastCall.fresh /\ DOMAIN lastCall.decks = RosterIds) =>
        \A p \in RosterIds :
            /\ Len(libraries[p].cards) = Deck_len(lastCall.decks[p])
            /\ \A i \in 1..Len(libraries[p].cards) :
                  LET e == libraries[p].cards[i]
                  IN  /\ e \in 1..Len(world)
                      /\ world[e].Zone = Some(Zone_Library(p))
                      /\ world[e].Owner = Some(p)
C1_Witness ==
    /\ StartSucceeded /\ lastCall.fresh /\ DOMAIN lastCall.decks = RosterIds
    /\ Len(players) = 2
    /\ Len(libraries[0].cards) = 2
    /\ Len(libraries[1].cards) = 1

\* C2: in every state, and so in the state a failed call leaves, the Library
\* of every roster player is as long as the world has entities whose Zone is
\* Library(that player).
C2_LibraryLenIsZoneCount ==
    \A p \in RosterIds :
        /\ p \in DOMAIN libraries
        /\ Len(libraries[p].cards) = Cardinality(InZone(world, Zone_Library(p)))
C2_Witness ==
    /\ pc = "idle"
    /\ outcome = "panic: Could not access the library"
    /\ \E p \in RosterIds : Len(libraries[p].cards) >= 1
    /\ Len(world) >= 2

\* C3 (as claimed): in every state every entity whose Zone is Library(p) is in
\* the Library of player p exactly once, and in no other player's Library.
C3_EveryLibraryEntityIndexed ==
    \A e \in 1..Len(world) : \A p \in PlayerId :
        world[e].Zone = Some(Zone_Library(p)) =>
            /\ p \in DOMAIN libraries
            /\ Cardinality(Positions(libraries[p], e)) = 1
            /\ \A q \in DOMAIN libraries \ {p} : Positions(libraries[q], e) = {}

\* C4 (as claimed): when start fails, no entity has been spawned and every
\* Library is as it was before the call.
C4_FailedStartChangesNothing ==
    StartFailed => (world = lastCall.world /\ libraries = lastCall.libraries)

\* C5 (as claimed): start fails, before it spawns or shuffles anything, when
\* the number of decks is not the number of players, and it fails without
\* starting partially when the numbers agree and the deck keys are not the
\* roster's ids.
C5_StartNeedsTheRoster ==
    StartEnded =>
        /\ Cardinality(DOMAIN lastCall.decks) # Len(players) =>
              /\ outcome = "panic: assertion failed"
              /\ world = lastCall.world
              /\ libraries = lastCall.libraries
              /\ shuffled = << >>
        /\ (Cardinality(DOMAIN lastCall.decks) = Len(players)
               /\ DOMAIN lastCall.decks # RosterIds) =>
              /\ outcome # "ok"
              /\ world = lastCall.world
              /\ libraries = lastCall.libraries

\* C6: spawn_object into Hand, Battlefield, Graveyard, Stack, Exile or
\* Command fails as not implemented, and leaves the world and every Library
\* as they were.
C6_OtherZonesFail ==
    (lastCall.op = "spawn_object" /\ lastCall.zone.zone # "Library") =>
        /\ outcome = "panic: not implemented"
        /\ world = lastCall.world
        /\ libraries = lastCall.libraries
C6_Witness ==
    /\ lastCall.op = "spawn_object"
    /\ lastCall.zone = Zone_Hand(0)
    /\ 0 \in RosterIds
    /\ outcome = "panic: not implemented"
    /\ Len(world) >= 1

\* A step that calls spawn_object(_, zone): directly, or from start's loop.
SpawnObjectStep(zone) ==
    \/ /\ pc = "idle"
       /\ calls' = calls + 1
       /\ lastCall'.op = "spawn_object"
       /\ lastCall'.zone = zone
    \/ /\ pc = "spawn"
       /\ cardIter # << >>
       /\ world' # world \/ pc' # pc \/ cardIter' # cardIter
       /\ zone = Zone_Library(curId)

\* C7: spawn_object into Library(p) for a p that is not in the roster fails:
\* it ends in a panic, creates no Library for p and appends to no Library.
C7_UnknownPlayerFails ==
    [][\A p \in PlayerId \ RosterIds :
           SpawnObjectStep(Zone_Library(p)) =>
               /\ outcome' = "panic: Could not access the library"
               /\ pc' = "idle"
               /\ libraries' = libraries]_vars
C7_Witness ==
    /\ lastCall.op = "spawn_object"
    /\ lastCall.zone.zone = "Library"
    /\ lastCall.zone.player \notin RosterIds
    /\ outcome = "panic: Could not access the library"
    /\ \E p \in RosterIds : Len(libraries[p].cards) >= 1

(***************************************************************************)
(* Properties of Card::color.                                              *)
(***************************************************************************)
\* The colors of the Colored symbols of a cost.
ColoredIn(cost) ==
    { cost[i].color : i \in { j \in 1..Len(cost) : cost[j].sym = "Colored" } }

\* The colors the tested card's cost refers to; none when it has no cost.
TestColors ==
    IF IsSome(Unwrap(testCard).mana_cost)
    THEN ColoredIn(Unwrap(Unwrap(testCard).mana_cost))
    ELSE {}

\* color() has returned for a card with / without a color indicator.
ColorOfIndicated == IsSome(colorResult) /\ IsSome(Unwrap(testCard).color_indicator)
ColorOfPlain == IsSome(colorResult) /\ ~IsSome(Unwrap(testCard).color_indicator)

\* C8: for a card that has a color indicator, color() returns the indicator's
\* value, whatever the mana cost is.
C8_IndicatorOverrides ==
    ColorOfIndicated => Unwrap(colorResult) = Unwrap(Unwrap(testCard).color_indicator)
C8_Witness ==
    /\ ColorOfIndicated
    /\ Unwrap(testCard).color_indicator = Some(Monocolored("Blue"))
    /\ TestColors = {"Black", "Green"}
    /\ colorResult = Some(Monocolored("Blue"))

\* C9: for a card without a color indicator whose mana cost is absent, empty
\* or made of Generic, Variable and Colorless symbols only, color() returns
\* Colorless.
C9_NoColoredSymbolIsColorless ==
    (ColorOfPlain /\ TestColors = {}) => Unwrap(colorResult) = Colorless
C9_Witness ==
    /\ ColorOfPlain
    /\ rawCost = Some(<< Generic(1), ColorlessSymbol, Variable >>)
    /\ colorResult = Some(Colorless)

\* C10: for a card without a color indicator whose mana cost refers to
\* exactly one color c in its Colored symbols, color() returns Monocolored(c).
C10_OneColorIsMonocolored ==
    (ColorOfPlain /\ Cardinality(TestColors) = 1) =>
        \E c \in TestColors : Unwrap(colorResult) = Monocolored(c)
C10_Witness ==
    /\ ColorOfPlain
    /\ rawCost = Some(<< Generic(1), Colored("Black"), Colored("Black") >>)
    /\ colorResult = Some(Monocolored("Black"))

\* The colors of the Colored symbols of the array the tested card's cost was
\* built from, repetitions and all.
RawColors == IF IsSome(rawCost) THEN ColoredIn(Unwrap(rawCost)) ELSE {}

\* C11: for a card without a color indicator whose mana cost refers to two or
\* more distinct colors in its Colored symbols, color() returns
\* Multicolored(S) with S exactly the set of those colors, however often a
\* colored symbol is repeated in the cost.
C11_ManyColorsAreMulticolored ==
    (ColorOfPlain /\ Cardinality(RawColors) >= 2) =>
        Unwrap(colorResult) = Multicolored(RawColors)
C11_Witness ==
    /\ ColorOfPlain
    /\ rawCost = Some(<< Colored("Black"), Colored("Black"), Colored("Green") >>)
    /\ colorResult = Some(Multicolored({"Black", "Green"}))

\* The canonical order of the colors: white, blue, black, red, green.
WUBRG == << "White", "Blue", "Black", "Red", "Green" >>
InSet(S, c) == c \in S

\* C12: the order on Color is the strict total order White < Blue < Black <
\* Red < Green, and iterating the set of colors color() returned yields its
\* colors in that order, whatever order they were inserted in.
C12_IterationIsWUBRG ==
    /\ \A i, j \in 1..Len(WUBRG) :
          i < j <=> ColorOrd(WUBRG[i]) < ColorOrd(WUBRG[j])
    /\ IsSome(colorResult) =>
          LET S == Unwrap(colorResult).colors
          IN  BTreeIter(S) = SelectSeq(WUBRG, LAMBDA c : InSet(S, c))
C12_Witness ==
    /\ ColorOfPlain
    /\ rawCost = Some(<< Colored("Green"), Colored("Black"), Colored("White") >>)
    /\ BTreeIter(Unwrap(colorResult).colors) = << "White", "Black", "Green" >>

(***************************************************************************)
(* Properties of Library::shuffle and of the loops of start.               *)
(***************************************************************************)
\* A step of start's second loop: library.shuffle() on one Library.
ShuffleStep == pc = "shuffle" /\ shuffled' # shuffled
\* The Library that step shuffles.
ShuffledId == shuffled'[Len(shuffled')]

\* Two sequences of entities hold every entity the same number of times.
SameMultiset(s, t) ==
    /\ Len(s) = Len(t)
    /\ \A e \in 1..MaxEntities :
          Cardinality({ i \in 1..Len(s) : s[i] = e })
              = Cardinality({ i \in 1..Len(t) : t[i] = e })

\* C13: Library::shuffle is a permutation: the Library it is called on holds
\* the same entities, each as often, after the call as before.
C13_ShuffleIsPermutation ==
    [][ShuffleStep =>
           SameMultiset(libraries[ShuffledId].cards, libraries'[ShuffledId].cards)]_vars
C13_Witness ==
    /\ pc = "shuffle"
    /\ shuffled # << >>
    /\ libraries[shuffled[Len(shuffled)]].cards = << 2, 1 >>

\* C14: shuffling one player's Library leaves every other Library, every
\* entity's components and the roster as they were.
C14_ShuffleFrame ==
    [][ShuffleStep =>
           /\ DOMAIN libraries' = DOMAIN libraries
           /\ \A q \in DOMAIN libraries \ {ShuffledId} : libraries'[q] = libraries[q]
           /\ world' = world
           /\ players' = players]_vars
C14_Witness ==
    /\ pc = "shuffle"
    /\ shuffled = << 1 >>
    /\ libraries[1].cards = << 3 >>
    /\ libraries[0].cards = << 1, 2 >>

\* C15: Game::new(n) yields n players with the ids 0, 1, ..., n-1 in that
\* order and 20 life each, one Library per player id and no other, every
\* Library empty, and an empty world.
C15_NewGame ==
    lastCall.op = "new" =>
        /\ Len(players) = lastCall.players
        /\ \A i \in 1..Len(players) : players[i].id = i - 1 /\ players[i].life = 20
        /\ DOMAIN libraries = 0..(lastCall.players - 1)
        /\ \A id \in DOMAIN libraries : libraries[id].cards = << >>
        /\ world = << >>
C15_Witness ==
    /\ lastCall = [op |-> "new", players |-> 2]
    /\ Len(players) = 2
    /\ DOMAIN libraries = {0, 1}

\* C16: within one start call no entity is spawned once a Library has been
\* shuffled, no Library is shuffled twice, and when start returns every
\* Library of the session has been shuffled.
C16_SpawnsThenOneShuffleEach ==
    [][/\ world' # world => (shuffled = << >> /\ shuffled' = << >>)
       /\ \A i, j \in 1..Len(shuffled') : shuffled'[i] = shuffled'[j] => i = j
       /\ StartSucceeded' =>
              { shuffled'[i] : i \in 1..Len(shuffled') } = DOMAIN libraries']_vars
C16_Witness ==
    /\ StartSucceeded
    /\ Len(shuffled) = 2
    /\ Len(world) = 3
    /\ \A id \in DOMAIN libraries : libraries[id].cards # << >>

(***************************************************************************)
(* Properties of the entities spawn_object creates.                        *)
(***************************************************************************)
\* A step on which spawn_object creates an entity and returns: a direct call,
\* or a turn of start's first loop.
SpawnedOk ==
    /\ Len(world') = Len(world) + 1
    /\ \/ pc = "idle" /\ outcome' = "ok"
       \/ pc = "spawn" /\ pc' = "spawn"
\* The card that step is called with, and the entity it creates.
SpawnedCard == IF pc = "idle" THEN lastCall'.card ELSE Head(cardIter)
SpawnedEntity == world'[Len(world')]

\* C17: every entity a successful spawn_object creates carries the identity
\* marker, and the name, type line, expansion symbol, rules text and
\* collector number of the card it is spawned from, the ColorKind color()
\* returns for that card, an Owner and a Zone.
C17_SpawnedComponents ==
    [][SpawnedOk =>
           /\ SpawnedEntity.Object = Some(TRUE)
           /\ SpawnedEntity.Name = Some(SpawnedCard.name)
           /\ SpawnedEntity.TypeLine = Some(SpawnedCard.type_line)
           /\ SpawnedEntity.ExpansionSymbol = Some(SpawnedCard.expansion_symbol)
           /\ SpawnedEntity.RulesText = Some(SpawnedCard.rules_text)
           /\ SpawnedEntity.CollectorNumber = Some(SpawnedCard.collector_number)
           /\ SpawnedEntity.ColorKind = Some(color(SpawnedCard))
           /\ IsSome(SpawnedEntity.Owner)
           /\ IsSome(SpawnedEntity.Zone)]_vars
C17_Witness ==
    /\ lastCall.op = "spawn_object"
    /\ outcome = "ok"
    /\ lastCall.card.name = "Garruk, Apex Predator"
    /\ world[Len(world)].Name = Some("Garruk, Apex Predator")
    /\ world[Len(world)].CollectorNumber = Some(210)
    /\ world[Len(world)].ColorKind = Some(Multicolored({"Black", "Green"}))
    /\ world[Len(world)].Owner = Some(1)

\* C18: a spawned entity carries a ManaCost component if and only if the card
\* has a mana cost, a PtCharacteristic component if and only if the card has
\* power and toughness, and a Loyalty component if and only if the card has
\* loyalty; a component it carries has the card's value.
C18_OptionalComponents ==
    [][SpawnedOk =>
           /\ IsSome(SpawnedEntity.ManaCost) <=> IsSome(SpawnedCard.mana_cost)
           /\ IsSome(SpawnedEntity.PtCharacteristic) <=> IsSome(SpawnedCard.pt)
           /\ IsSome(SpawnedEntity.Loyalty) <=> IsSome(SpawnedCard.loyalty)
           /\ SpawnedEntity.ManaCost = SpawnedCard.mana_cost
           /\ SpawnedEntity.PtCharacteristic = SpawnedCard.pt
           /\ SpawnedEntity.Loyalty = SpawnedCard.loyalty]_vars
C18_Witness ==
    /\ Len(world) = 2
    /\ world[1].Name = Some("Plains")
    /\ world[1].ManaCost = None /\ world[1].PtCharacteristic = None
    /\ world[1].Loyalty = None
    /\ world[2].Name = Some("Garruk, Apex Predator")
    /\ IsSome(world[2].ManaCost) /\ world[2].PtCharacteristic = None
    /\ world[2].Loyalty = Some(5)

(***************************************************************************)
(* Properties of the life of a session.                                    *)
(***************************************************************************)
\* C19 (as claimed): once start has completed, a further start call on the
\* session adds no entity to the world or to a Library and reorders no
\* Library: while it runs and when it ends, the world and every Library are
\* as the call found them.
C19_StartedSessionIsNotRestarted ==
    (lastCall.op = "start" /\ lastCall.started) =>
        (world = lastCall.world /\ libraries = lastCall.libraries)

\* The zone a step's spawn_object call is given: that of a direct call, or
\* the Library of the deck start is spawning.
SpawnedZone == IF pc = "idle" THEN lastCall'.zone ELSE Zone_Library(curId)

\* C20: an entity's Owner is set when the entity is created, to the player of
\* the Library zone it is spawned into, and no later step of the session (a
\* further spawn_object, start, a shuffle) changes or removes it.
C20_OwnerSetOnce ==
    [][/\ Len(world') >= Len(world)
       /\ \A e \in 1..Len(world) : world'[e].Owner = world[e].Owner
       /\ \A e \in (Len(world) + 1)..Len(world') :
              /\ SpawnedZone.zone = "Library"
              /\ world'[e].Owner = Some(SpawnedZone.player)]_vars
C20_Witness ==
    /\ StartSucceeded
    /\ calls = 2
    /\ Len(shuffled) = 2
    /\ Len(world) = 3
    /\ world[1].Owner = Some(1)
    /\ libraries[1].cards[1] # 1

(***************************************************************************)
(* Invariants of the entities of the world.                                *)
(***************************************************************************)
\* C21: in every state every entity of the world has one Zone component, and
\* its value is a zone of enum Zone (a component type is attached to an
\* entity at most once, so one is neither missing nor doubled).
C21_OneZonePerEntity ==
    \A e \in 1..Len(world) :
        /\ IsSome(world[e].Zone)
        /\ Len(world[e].Zone) = 1
        /\ Unwrap(world[e].Zone) \in Zone
C21_Witness ==
    /\ Len(world) = 3
    /\ calls = 2
    /\ pc = "idle"
    /\ { Unwrap(world[e].Zone) : e \in 1..3 } = { Zone_Library(0), Zone_Library(1) }

\* C22: in every state no entity whose Zone is not the Stack or the
\* Battlefield, and so no entity of a Library, carries a Controller.
C22_NoControllerOffStackAndBattlefield ==
    \A e \in 1..Len(world) :
        (IsSome(world[e].Zone)
            /\ Unwrap(world[e].Zone).zone \notin {"Stack", "Battlefield"}) =>
            world[e].Controller = None
C22_Witness ==
    /\ StartSucceeded
    /\ Len(world) >= 2
    /\ \A e \in 1..Len(world) :
          /\ Unwrap(world[e].Zone).zone = "Library"
          /\ IsSome(world[e].Owner)
          /\ world[e].Controller = None

(***************************************************************************)
(* Further properties of Card::color.                                      *)
(***************************************************************************)
\* C23 (as claimed): every Multicolored value color() returns holds at least
\* two distinct colors, for a card with a color indicator as for one without.
C23_MulticoloredHasTwoColors ==
    (IsSome(colorResult) /\ Unwrap(colorResult).kind = "Multicolored") =>
        Cardinality(Unwrap(colorResult).colors) >= 2

\* The cost that holds one Colored symbol per color of S, in the order of
\* the colors, and nothing else; and the card without indicator of a cost.
CanonicalCost(S) == [i \in 1..Cardinality(S) |-> Colored(BTreeIter(S)[i])]
CardWithCost(symbols) == [Card_default EXCEPT !.mana_cost = Some(ManaCost(symbols))]

\* C24: for a card without a color indicator, color() depends only on the
\* set of colors of its Colored symbols: the result is the one color() gives
\* for the cost made of one Colored symbol per color of that set, so that
\* two costs with the same colors, whatever the order and the repetitions of
\* their symbols and whatever Generic, Variable and Colorless symbols they
\* hold, and a missing cost like an empty one, give the same result.
C24_ColorDependsOnColorSetOnly ==
    ColorOfPlain =>
        Unwrap(colorResult) = color(CardWithCost(CanonicalCost(RawColors)))
C24_Witness ==
    /\ ColorOfPlain
    /\ rawCost = Some(<< Colored("Green"), Generic(1), Colored("White") >>)
    /\ CanonicalCost(RawColors) = << Colored("White"), Colored("Green") >>
    /\ colorResult = Some(Multicolored({"White", "Green"}))

(***************************************************************************)
(* Further properties of the session.                                      *)
(***************************************************************************)
\* A step on which a spawn_object call returns: a direct call that ends
\* "ok", or a turn of start's first loop after which the loop goes on.
SpawnReturns ==
    \/ pc = "idle" /\ calls' = calls + 1 /\ lastCall'.op = "spawn_object"
          /\ outcome' = "ok"
    \/ pc = "spawn" /\ cardIter # << >> /\ pc' = "spawn" /\ cardIter' # cardIter

\* C25: a successful spawn_object into Library(p) adds one entity to the
\* world, leaving the others as they were, and appends its id at the end of
\* p's Library: the elements p's Library had keep their positions, and every
\* other Library is unchanged.
C25_SpawnAppends ==
    [][SpawnReturns =>
           /\ SpawnedZone.zone = "Library"
           /\ Len(world') = Len(world) + 1
           /\ SubSeq(world', 1, Len(world)) = world
           /\ DOMAIN libraries' = DOMAIN libraries
           /\ libraries'[SpawnedZone.player].cards
                  = Append(libraries[SpawnedZone.player].cards, Len(world'))
           /\ \A q \in DOMAIN libraries \ {SpawnedZone.player} :
                  libraries'[q] = libraries[q]]_vars
C25_Witness ==
    /\ Len(players) = 2
    /\ lastCall.op = "spawn_object"
    /\ outcome = "ok"
    /\ calls = 2
    /\ lastCall.zone = Zone_Library(0)
    /\ lastCall.libraries[0].cards = << 1 >>
    /\ libraries[0].cards = << 1, 2 >>
    /\ libraries[1].cards = << >>

\* The orderings of a sequence of entities: the sequences that hold the same
\* entities, each as often.
Orderings(s) ==
    { t \in [1..Len(s) -> { s[i] : i \in 1..Len(s) }] : SameMultiset(s, t) }

\* C26: a shuffle can produce any ordering: whenever start is about to
\* shuffle a Library, for every ordering of the Library's sequence there is
\* a shuffle step that leaves the Library in that ordering.
C26_EveryOrderingIsPossible ==
    pc = "shuffle" =>
        \A id \in shuffleIter : \A t \in Orderings(libraries[id].cards) :
            ENABLED (StartShuffle /\ libraries' = [libraries EXCEPT ![id].cards = t])
C26_Witness ==
    /\ StartSucceeded
    /\ Len(players) = 1
    /\ DOMAIN lastCall.decks = {0}
    /\ lastCall.decks[0] = << [name |-> "Plains", count |-> 1],
                              [name |-> "Soulmender", count |-> 1] >>
    /\ world[libraries[0].cards[1]].Name = Some("Soulmender")
    /\ world[libraries[0].cards[2]].Name = Some("Plains")

C28_StartTerminates == (pc # "idle") ~> StartEnded
C28_Witness ==
    /\ StartFailed
    /\ outcome = "panic: card not found"
    /\ Len(world) = 2
    /\ shuffled = << >>

\* The entity spawn_object builds from a card for the Library of player p.
LibraryEntity(card, p) ==
    [EntityBuilder_for(card) EXCEPT !.Owner = Some(p), !.Zone = Some(Zone_Library(p))]

\* The cards start is to file in the Library of player p: the deck of p
\* expanded in deck order, nothing when the map has no deck for p.
ExpectedCards(p) ==
    IF p \in DOMAIN lastCall.decks
    THEN Unwrap(Deck_cards(lastCall.decks[p]))
    ELSE << >>

\* C29: whatever order the decks were processed in, when start on a fresh
\* session is about to shuffle, the Library of every player holds, in deck
\* order, one entity per copy of that player's deck, built from that card
\* for that player, and nothing of another player's deck.
C29_DeckOrderIndependent ==
    (pc = "shuffle" /\ shuffled = << >> /\ lastCall.fresh) =>
        \A p \in RosterIds :
            /\ Len(libraries[p].cards) = Len(ExpectedCards(p))
            /\ \A i \in 1..Len(libraries[p].cards) :
                  world[libraries[p].cards[i]] = LibraryEntity(ExpectedCards(p)[i], p)
C29_Witness ==
    /\ pc = "shuffle" /\ shuffled = << >> /\ lastCall.fresh
    /\ DOMAIN lastCall.decks = {0, 1}
    /\ Len(players) = 2
    /\ lastCall.decks[0] = << [name |-> "Plains", count |-> 1],
                              [name |-> "Soulmender", count |-> 1] >>
    /\ libraries[1].cards = << 1 >>
    /\ libraries[0].cards = << 2, 3 >>

\* C30: in every state the keys of the Library map are the roster's
\* PlayerIds and every player has 20 life, and no step of start, spawn_object
\* or shuffle changes the roster, removes an entity from the world or
\* removes an entity from a Library.
C30_RosterAndEntitiesKept ==
    [][/\ DOMAIN libraries = RosterIds
       /\ DOMAIN libraries' = DOMAIN libraries
       /\ players' = players
       /\ \A i \in 1..Len(players) : players[i].life = 20
       /\ Len(world') >= Len(world)
       /\ SubSeq(world', 1, Len(world)) = world
       /\ \A id \in DOMAIN libraries :
              /\ Len(libraries'[id].cards) >= Len(libraries[id].cards)
              /\ \A i \in 1..Len(libraries[id].cards) :
                     Positions(libraries'[id], libraries[id].cards[i]) # {}]_vars
C30_Witness ==
    /\ calls = 2
    /\ lastCall.op = "spawn_object"
    /\ outcome = "panic: Could not access the library"
    /\ Len(world) = 3
    /\ DOMAIN libraries = {0, 1}
    /\ RosterIds = {0, 1}
    /\ \A id \in DOMAIN libraries : Len(libraries[id].cards) = 1
====
